---------------------------- MODULE Spec2Model ----------------------------
(***************************************************************************)
(* vmgr: a terminal dashboard over libvirt domains.                        *)
(*                                                                         *)
(* The model covers the App aggregate of src/src/app.rs (stored snapshots, *)
(* derived table rows, table selection, scrollbar state, running flag),    *)
(* the tick handler, the navigation handlers, the key dispatcher of        *)
(* src/src/handler.rs and the indexing done by render_overview in          *)
(* src/src/ui.rs.  The hypervisor (get_vm_data, start, stop, snapshot,     *)
(* disconnect) is the environment: its answers are drawn from small sets.  *)
(*                                                                         *)
(* Abstractions                                                            *)
(*  - A VmMetrics record keeps name, status, timestamp and cpu_time.  The  *)
(*    id, memory, network and disk fields are copied through by the code   *)
(*    without taking part in any decision and are left out.                *)
(*  - The monotonic clock is read in whole seconds; the Instant::now()     *)
(*    readings taken for the domains of one get_vm_data call fall into the *)
(*    same second and share one reading.                                   *)
(*  - usize is modelled with UsizeMod values instead of 2^64, so that the  *)
(*    wrap-around of an unchecked subtraction stays representable.         *)
(*  - f64 arithmetic is modelled exactly (as rationals); "{:.2}" rounds    *)
(*    the exact quotient to the nearest hundredth, ties to even.           *)
(*  - A panic aborts the process: panic names its kind, the fields the     *)
(*    handler had not assigned yet keep their values, nothing runs after.  *)
(***************************************************************************)
EXTENDS Integers, Sequences, FiniteSets, TLC

VARIABLES
    running,          \* App.running
    overflow_checks,  \* the build: TRUE panics on integer overflow, FALSE wraps
    metrics,          \* App.metrics: the stored snapshots
    table_data,       \* App.table_data: the derived rows
    table_state,      \* App.table_state.selected(): <<>> is None, <<i>> is Some(i)
    scroll_state,     \* App.scroll_state: [content_length, position]
    fetched,          \* the result of the latest get_vm_data call
    now,              \* the monotonic clock at the latest get_vm_data call
    issued,           \* the lifecycle calls made by the latest key event
    panic             \* "none", or the kind of panic that aborted the process

vars == <<running, overflow_checks, metrics, table_data, table_state,
          scroll_state, fetched, now, issued, panic>>

---------------------------------------------------------------------------
(* Bounds and program constants *)

NumNames == 2

MaxVms == 2

MaxClock == 1

MaxCpuHalfSecs == 1

MaxSelected == 3

DeriveMaxCpuHalfSecs == 3

DeriveMaxClock == 3

NavNumNames == 3

NavMaxVms == 3

ITEM_HEIGHT == 4

NS_PER_SEC == 1000000000

UsizeMod == 2 ^ 16

USIZE_MAX == UsizeMod - 1

None == <<>>

Some(i) == <<i>>

---------------------------------------------------------------------------
(* Arithmetic and formatting *)

\* the distance of two counters, whichever is larger
AbsDiff(a, b) == IF a >= b THEN a - b ELSE b - a

\* u64::saturating_sub
SaturatingSub(a, b) == IF a >= b THEN a - b ELSE 0

\* the distance of two clock readings, whichever is later
AbsDuration(later, earlier) == IF later >= earlier THEN later - earlier ELSE earlier - later

\* Instant::duration_since(..).as_secs_f64(): zero when `earlier` is later
DurationSince(later, earlier) == IF later >= earlier THEN later - earlier ELSE 0

\* num / den rounded to the nearest integer, ties to even (den > 0, num >= 0)
RoundHalfEven(num, den) ==
    LET q == num \div den
        r == num % den
    IN  IF 2 * r > den THEN q + 1
        ELSE IF 2 * r < den THEN q
        ELSE IF q % 2 = 0 THEN q ELSE q + 1

\* format!("{:.2}%", x) for x = centi / 100
FormatPercent(centi) ==
    LET frac == centi % 100
    IN  ToString(centi \div 100) \o "." \o
        (IF frac < 10 THEN "0" ELSE "") \o ToString(frac) \o "%"

\* time_diff / elapsed, the ratio without the factor 100, in hundredths
RatioInCenti(delta_ns, elapsed) ==
    RoundHalfEven(delta_ns, (NS_PER_SEC \div 100) * elapsed)

\* (time_diff / elapsed) * 100.0 in hundredths of a percent, where
\* time_diff = delta_ns / 1e9:  delta_ns * 10^4 / (1e9 * elapsed)
\*                            = delta_ns / ((1e9 / 10^4) * elapsed)
CentiPercent(delta_ns, elapsed) ==
    RoundHalfEven(delta_ns, (NS_PER_SEC \div 10000) * elapsed)

\* the cpu_usage cell of App::tick for a (stored, current) snapshot pair
CpuUsage(prev, cur) ==
    LET elapsed == DurationSince(cur.timestamp, prev.timestamp)
    IN  IF elapsed > 0
        THEN FormatPercent(CentiPercent(SaturatingSub(cur.cpu_time, prev.cpu_time),
                                        elapsed))
        ELSE FormatPercent(0)

StatusLabel(status) == IF status THEN "on" ELSE "off"

\* usize subtraction and multiplication: [ok, val]; ok = FALSE is the
\* overflow panic of a build with overflow checks
SubUsize(a, b) ==
    IF a >= b THEN [ok |-> TRUE, val |-> a - b]
    ELSE [ok |-> ~overflow_checks, val |-> (a - b) % UsizeMod]

MulUsize(a, b) ==
    IF a * b < UsizeMod THEN [ok |-> TRUE, val |-> a * b]
    ELSE [ok |-> ~overflow_checks, val |-> (a * b) % UsizeMod]

---------------------------------------------------------------------------
(* The hypervisor's answers *)

VmMetrics(name, status, timestamp, cpu_time) ==
    [name |-> name, status |-> status, timestamp |-> timestamp, cpu_time |-> cpu_time]

CpuTimes(maxHalfSecs) == {k * (NS_PER_SEC \div 2) : k \in 0..maxHalfSecs}

\* the names of the first n domains
Names(n) == {"vm" \o ToString(i) : i \in 1..n}

\* lists of at most maxVms domains; libvirt keeps domain names unique
NameLists(names, maxVms) ==
    {nl \in UNION {[1..n -> names] : n \in 0..maxVms} :
        \A i, j \in DOMAIN nl : nl[i] = nl[j] => i = j}

\* the domain lists a hypervisor can report, before they are time-stamped
StatsOf(nameLists, statuses, cpuTimes) ==
    UNION {
        {[i \in DOMAIN nl |-> VmMetrics(nl[i], d[i][1], 0, d[i][2])] :
            d \in [DOMAIN nl -> statuses \X cpuTimes]} :
        nl \in nameLists}

DomainStats ==
    StatsOf(NameLists(Names(NumNames), MaxVms), BOOLEAN, CpuTimes(MaxCpuHalfSecs))

\* every result get_vm_data can return when the clock reads t
get_vm_data(stats, t) ==
    {[i \in DOMAIN st |-> [st[i] EXCEPT !.timestamp = t]] : st \in stats}

---------------------------------------------------------------------------
(* Construction: Default for App *)

InitialRow(domain) ==
    [name |-> domain.name, cpu_usage |-> ToString(0), status |-> StatusLabel(domain.status)]

AppDefault(batch, t, checks) ==
    LET rows == [i \in DOMAIN batch |-> InitialRow(batch[i])]
        last == SubUsize(Len(rows), 1)
        range == MulUsize(last.val, ITEM_HEIGHT)
    IN  /\ overflow_checks = checks
        /\ fetched = batch
        /\ now = t
        /\ issued = <<>>
        /\ IF last.ok /\ range.ok
           THEN /\ running = TRUE
                /\ panic = "none"
                /\ metrics = batch
                /\ table_data = rows
                /\ table_state = Some(0)
                /\ scroll_state = [content_length |-> range.val, position |-> 0]
           ELSE \* the subtraction overflowed: no App was built
                /\ running = FALSE
                /\ panic = "overflow"
                /\ metrics = <<>>
                /\ table_data = <<>>
                /\ table_state = None
                /\ scroll_state = [content_length |-> 0, position |-> 0]

InitFrom(stats) ==
    \E batch \in get_vm_data(stats, 0), checks \in BOOLEAN : AppDefault(batch, 0, checks)

Init == InitFrom(DomainStats)

Panicked == panic # "none"

Alive == running /\ ~Panicked

---------------------------------------------------------------------------
(* App::tick *)

TickRow(prev, domain) ==
    [name |-> domain.name, cpu_usage |-> CpuUsage(prev, domain),
     status |-> StatusLabel(domain.status)]

\* the handler once get_vm_data has returned `batch`
TickApply(batch) ==
    /\ fetched' = batch
    /\ IF Len(batch) > Len(metrics)
       THEN \* self.metrics[i] is out of bounds for some i
            /\ panic' = "index"
            /\ UNCHANGED table_data
       ELSE /\ table_data' = [i \in DOMAIN batch |-> TickRow(metrics[i], batch[i])]
            /\ UNCHANGED panic
    /\ issued' = <<>>
    /\ UNCHANGED <<running, overflow_checks, metrics, table_state, scroll_state>>

TickFrom(stats) ==
    /\ Alive
    /\ \E t \in now..MaxClock :
        /\ now' = t
        /\ \E batch \in get_vm_data(stats, t) : TickApply(batch)

Tick == TickFrom(DomainStats)

\* get_domain_stats returned Err: get_vm_data unwraps it
TickFetchFails ==
    /\ Alive
    /\ panic' = "fetch"
    /\ UNCHANGED <<running, overflow_checks, metrics, table_data, table_state,
                   scroll_state, fetched, now, issued>>

---------------------------------------------------------------------------
(* App::next, App::prev *)

\* select(Some(i)) with the scrollbar left where it was
SelectOnly(i) ==
    /\ table_state' = Some(i)
    /\ UNCHANGED <<scroll_state, panic>>

\* the state after select(Some(i)) and scroll_state.position(i * ITEM_HEIGHT)
SelectAndScroll(i) ==
    LET pos == MulUsize(i, ITEM_HEIGHT)
    IN  IF pos.ok
        THEN /\ table_state' = Some(i)
             /\ scroll_state' = [scroll_state EXCEPT !.position = pos.val]
             /\ UNCHANGED panic
        ELSE /\ table_state' = Some(i)
             /\ panic' = "overflow"
             /\ UNCHANGED scroll_state

\* the index App::next computes: [ok, val]
NextIndex ==
    IF table_state = None THEN [ok |-> TRUE, val |-> 0]
    ELSE LET i == table_state[1]
             last == SubUsize(Len(table_data), 1)
         IN  IF ~last.ok THEN last
             ELSE IF i >= last.val THEN [ok |-> TRUE, val |-> 0]
             ELSE [ok |-> TRUE, val |-> i + 1]

\* the index App::prev computes: [ok, val]
PrevIndex ==
    IF table_state = None THEN [ok |-> TRUE, val |-> 0]
    ELSE LET i == table_state[1]
         IN  IF i = 0 THEN SubUsize(Len(table_data), 1)
             ELSE [ok |-> TRUE, val |-> i - 1]

\* indices the model follows: the small ones and the wrapped usize::MAX
Tracked(i) == i <= MaxSelected \/ i = USIZE_MAX

Move(index) ==
    /\ Alive
    /\ index.ok => Tracked(index.val)
    /\ IF index.ok
       THEN SelectAndScroll(index.val)
       ELSE /\ panic' = "overflow"
            /\ UNCHANGED <<table_state, scroll_state>>
    /\ issued' = <<>>
    /\ UNCHANGED <<running, overflow_checks, metrics, table_data, fetched, now>>

\* KeyCode::Down
KeyDown == Move(NextIndex)

\* KeyCode::Up
KeyUp == Move(PrevIndex)

---------------------------------------------------------------------------
(* handle_key_events: the lifecycle keys and quit *)

\* what Domain::lookup_by_name and the call on the domain can answer
Outcomes == {"ok", "not_found", "rejected"}

\* list[app.table_state.selected().unwrap()]: "none" when it yields an
\* element, otherwise the panic it ends in
SelectedIn(list) ==
    IF table_state = None THEN "unwrap"
    ELSE IF table_state[1] >= Len(list) THEN "index"
    ELSE "none"

\* vms::start, vms::stop, vms::snapshot: the call is made; a domain that is
\* found and refuses makes the unwrap of its result panic
Lifecycle(cmd, name, outcome) ==
    /\ issued' = <<[cmd |-> cmd, name |-> name]>>
    /\ panic' = IF outcome = "rejected" THEN "lifecycle" ELSE "none"

\* the 'x' arm with the two branches exchanged
KeyXInverted ==
    /\ Alive
    /\ IF SelectedIn(table_data) = "none"
       THEN LET current_item == table_data[table_state[1] + 1]
            IN  \E outcome \in Outcomes :
                    IF current_item.status = "off"
                    THEN Lifecycle("stop", current_item.name, outcome)
                    ELSE Lifecycle("start", current_item.name, outcome)
       ELSE /\ panic' = SelectedIn(table_data)
            /\ issued' = <<>>
    /\ UNCHANGED <<running, overflow_checks, metrics, table_data, table_state,
                   scroll_state, fetched, now>>

\* the 'x' arm writing the status it asked for into the selected row
KeyXOptimistic ==
    /\ Alive
    /\ IF SelectedIn(table_data) = "none"
       THEN LET current_item == table_data[table_state[1] + 1]
            IN  /\ \E outcome \in Outcomes :
                        IF current_item.status = "off"
                        THEN Lifecycle("start", current_item.name, outcome)
                        ELSE Lifecycle("stop", current_item.name, outcome)
                /\ table_data' =
                        [table_data EXCEPT ![table_state[1] + 1].status =
                            IF current_item.status = "off" THEN "on" ELSE "off"]
       ELSE /\ panic' = SelectedIn(table_data)
            /\ issued' = <<>>
            /\ UNCHANGED table_data
    /\ UNCHANGED <<running, overflow_checks, metrics, table_state,
                   scroll_state, fetched, now>>

\* KeyCode::Char('x')
KeyX ==
    /\ Alive
    /\ IF SelectedIn(table_data) = "none"
       THEN LET current_item == table_data[table_state[1] + 1]
            IN  \E outcome \in Outcomes :
                    IF current_item.status = "off"
                    THEN Lifecycle("start", current_item.name, outcome)
                    ELSE Lifecycle("stop", current_item.name, outcome)
       ELSE /\ panic' = SelectedIn(table_data)
            /\ issued' = <<>>
    /\ UNCHANGED <<running, overflow_checks, metrics, table_data, table_state,
                   scroll_state, fetched, now>>

\* KeyCode::Char('s')
KeyS ==
    /\ Alive
    /\ IF SelectedIn(table_data) = "none"
       THEN LET current_item == table_data[table_state[1] + 1]
            IN  \E outcome \in Outcomes :
                    Lifecycle("snapshot", current_item.name, outcome)
       ELSE /\ panic' = SelectedIn(table_data)
            /\ issued' = <<>>
    /\ UNCHANGED <<running, overflow_checks, metrics, table_data, table_state,
                   scroll_state, fetched, now>>

\* App::quit: disconnect panics when the connection refuses to close
Quit ==
    /\ Alive
    /\ \E closed \in BOOLEAN :
        IF closed
        THEN running' = FALSE /\ UNCHANGED panic
        ELSE panic' = "disconnect" /\ UNCHANGED running
    /\ issued' = <<>>
    /\ UNCHANGED <<overflow_checks, metrics, table_data, table_state,
                   scroll_state, fetched, now>>

\* the keys the dispatcher tells apart
Keys == {"Esc", "q", "Ctrl-c", "Ctrl-C", "c", "C", "Up", "Down", "x", "s", "other"}

\* the quit keys when the Control modifier of 'c' is not looked at
QuitKeysAnyC == {"Esc", "q", "Ctrl-c", "Ctrl-C", "c", "C"}

QuitKeys == {"Esc", "q", "Ctrl-c", "Ctrl-C"}

\* the keys that fall through every arm of the match
KeyIgnored ==
    /\ Alive
    /\ issued' = <<>>
    /\ UNCHANGED <<running, overflow_checks, metrics, table_data, table_state,
                   scroll_state, fetched, now, panic>>

handle_key_events(key) ==
    CASE key \in QuitKeys -> Quit
      [] key = "Up" -> KeyUp
      [] key = "Down" -> KeyDown
      [] key = "x" -> KeyX
      [] key = "s" -> KeyS
      [] OTHER -> KeyIgnored

KeyEvent == \E key \in Keys : handle_key_events(key)

---------------------------------------------------------------------------
(* ui::render: render_overview indexes the rows and the stored snapshots *)

Render ==
    /\ Alive
    /\ panic' = IF SelectedIn(table_data) # "none" THEN SelectedIn(table_data)
                ELSE SelectedIn(metrics)
    /\ UNCHANGED <<running, overflow_checks, metrics, table_data, table_state,
                   scroll_state, fetched, now, issued>>

Next == Tick \/ TickFetchFails \/ KeyEvent \/ Render

Spec == Init /\ [][Next]_vars

---------------------------------------------------------------------------
(* The rate derivation of App::tick on its own: one stored snapshot and    *)
(* one current snapshot of the same domain, with cpu times and clock       *)
(* readings drawn freely, so that counter resets and readings in either    *)
(* order are covered.                                                      *)

DeriveSnapshots ==
    {VmMetrics("vm1", st, t, c) :
        st \in BOOLEAN, t \in 0..DeriveMaxClock, c \in CpuTimes(DeriveMaxCpuHalfSecs)}

InitDerive ==
    \E previous \in DeriveSnapshots, checks \in BOOLEAN :
        AppDefault(<<previous>>, previous.timestamp, checks)

DeriveTick ==
    /\ Alive
    /\ \E current \in DeriveSnapshots :
        /\ now' = current.timestamp
        /\ TickApply(<<current>>)

NextDerive == DeriveTick

SpecDerive == InitDerive /\ [][NextDerive]_vars

---------------------------------------------------------------------------
(* The same program over a hypervisor with more domains, all of them       *)
(* running and idle, for the properties of the selection: the row list     *)
(* grows, shrinks and is reordered over up to NavMaxVms rows.              *)

NavStats == StatsOf(NameLists(Names(NavNumNames), NavMaxVms), {TRUE}, {0})

InitNav == InitFrom(NavStats)

NavTick == TickFrom(NavStats)

NextNav == NavTick \/ TickFetchFails \/ KeyEvent \/ Render

SpecNav == InitNav /\ [][NextNav]_vars

---------------------------------------------------------------------------
(* Vocabulary of the properties *)

RowCount == Len(table_data)

NamesOf(list) == {list[i].name : i \in DOMAIN list}

\* a step in which App::tick ran to its end
TickCompleted ==
    /\ panic' = "none"
    /\ fetched' # fetched \/ now' # now \/ table_data' # table_data

\* a step in which App::tick ran, to its end or into an index panic
TickRan ==
    /\ panic' \in {"none", "index"}
    /\ fetched' # fetched \/ now' # now \/ table_data' # table_data

\* the selection names a row of the list shown before the step
SelectionValid == SelectedIn(table_data) = "none"

SelectedName == table_data[table_state[1] + 1].name

Abs(x) == IF x >= 0 THEN x ELSE -x

HalfSecs(ns) == ns \div (NS_PER_SEC \div 2)

---------------------------------------------------------------------------
(* C1..C10 *)

\* C1: the snapshots a tick fetched replace the stored ones, so that the
\* stored snapshots are always those of the latest completed fetch and the
\* next tick's baseline is the snapshot of the tick before it.
C1_StoredIsLatestFetch ==
    panic = "none" => metrics = fetched

\* C2: in every state the program reaches without panicking, a non-empty
\* row list has a selection Some(i) with 0 <= i < row count, and an empty
\* row list has the selection None.
C2_SelectionInvariant ==
    panic = "none" =>
        IF RowCount > 0
        THEN table_state # None /\ table_state[1] \in 0..(RowCount - 1)
        ELSE table_state = None

\* C3: when a tick replaces the row list and the VM selected before the
\* tick is still present by name, the selection after the tick is the new
\* position of that VM.
C3_SelectionFollowsName ==
    [][(TickCompleted /\ SelectionValid) =>
        \A j \in DOMAIN table_data' :
            table_data'[j].name = SelectedName => table_state' = Some(j - 1)]_vars

\* C4: when a tick replaces the row list by a shorter, non-empty one that
\* lacks the selected VM, the selected index keeps its value if that is
\* still a valid index and otherwise becomes the last valid index.
C4_SelectionClamped ==
    [][(/\ TickCompleted
        /\ SelectionValid
        /\ Len(table_data') < RowCount
        /\ Len(table_data') > 0
        /\ SelectedName \notin NamesOf(table_data')) =>
        table_state' = Some(IF table_state[1] < Len(table_data')
                            THEN table_state[1]
                            ELSE Len(table_data') - 1)]_vars

\* C5: in a tick every VM's cpu usage is derived from the stored snapshot
\* of the same name, wherever in the stored list that snapshot is.
C5_BaselineMatchedByName ==
    [][TickCompleted =>
        \A i \in DOMAIN table_data' : \A j \in DOMAIN metrics :
            metrics[j].name = fetched'[i].name =>
                table_data'[i].cpu_usage = CpuUsage(metrics[j], fetched'[i])]_vars

\* C6: a VM in a tick's batch that was not in the batch before is a first
\* observation: the tick completes and the VM's row shows 0.00%.
C6_NewVmIsFirstObservation ==
    [][TickRan =>
        \A i \in DOMAIN fetched' :
            fetched'[i].name \notin NamesOf(fetched) =>
                /\ panic' = "none"
                /\ table_data'[i].cpu_usage = "0.00%"]_vars

\* C7: a tick shows 0.00% for every VM whose current cpu time is smaller
\* than the cpu time of the snapshot it is compared with (counter reset).
C7_CounterResetIsZero ==
    [][TickCompleted =>
        \A i \in DOMAIN table_data' :
            fetched'[i].cpu_time < metrics[i].cpu_time =>
                table_data'[i].cpu_usage = "0.00%"]_vars

C7_Witness ==
    /\ panic = "none"
    /\ fetched[1].cpu_time < metrics[1].cpu_time
    /\ fetched[1].timestamp > metrics[1].timestamp
    /\ table_data[1].cpu_usage = "0.00%"

\* C8: a tick shows 0.00% for every VM whose current snapshot is not later
\* than the snapshot it is compared with (elapsed time zero or negative).
C8_NoElapsedTimeIsZero ==
    [][TickCompleted =>
        \A i \in DOMAIN table_data' :
            fetched'[i].timestamp <= metrics[i].timestamp =>
                table_data'[i].cpu_usage = "0.00%"]_vars

C8_Witness ==
    /\ panic = "none"
    /\ fetched[1].timestamp < metrics[1].timestamp
    /\ fetched[1].cpu_time > metrics[1].cpu_time
    /\ table_data[1].cpu_usage = "0.00%"

\* C9: with positive elapsed time and no counter reset a tick shows, to two
\* decimals, (current cpu ns - previous cpu ns) / 1e9 / elapsed * 100: one
\* cpu second in one second is 100.00%, one cpu second in two is 50.00%.
C9_PercentFormula ==
    [][TickCompleted =>
        \A i \in DOMAIN table_data' :
            LET elapsed == fetched'[i].timestamp - metrics[i].timestamp
                halves == HalfSecs(fetched'[i].cpu_time) - HalfSecs(metrics[i].cpu_time)
                \* halves / 2 cpu seconds in elapsed seconds: 50 * halves / elapsed %
                floor == (5000 * halves) \div elapsed
            IN  (elapsed > 0 /\ halves >= 0) =>
                /\ \E centi \in {floor, floor + 1} :
                        /\ 2 * Abs(5000 * halves - centi * elapsed) <= elapsed
                        /\ table_data'[i].cpu_usage = FormatPercent(centi)
                /\ (halves = 2 /\ elapsed = 1) => table_data'[i].cpu_usage = "100.00%"
                /\ (halves = 2 /\ elapsed = 2) => table_data'[i].cpu_usage = "50.00%"]_vars

C9_Witness ==
    /\ panic = "none"
    /\ fetched[1].cpu_time - metrics[1].cpu_time = NS_PER_SEC
    /\ fetched[1].timestamp = metrics[1].timestamp + 2
    /\ table_data[1].cpu_usage = "50.00%"

\* C10: with a non-empty row list, Down and Up leave the selection within
\* [0, row count - 1]; Down selects 0 from the last index and index + 1 from
\* an index before it, Up selects the last index from 0 and index - 1 from
\* an index after it.
C10_CircularStepping ==
    [][(RowCount > 0 /\ table_state # None /\ panic' = "none") =>
        LET i == table_state[1]
            last == RowCount - 1
        IN  /\ KeyDown =>
                /\ table_state' # None /\ table_state'[1] \in 0..last
                /\ i = last => table_state' = Some(0)
                /\ i < last => table_state' = Some(i + 1)
            /\ KeyUp =>
                /\ table_state' # None /\ table_state'[1] \in 0..last
                /\ i = 0 => table_state' = Some(last)
                /\ i \in 1..last => table_state' = Some(i - 1)]_vars

---------------------------------------------------------------------------
(* C11..C20 *)

\* C11: with an empty row list Down and Up are no-ops: the selection stays
\* None, the scrollbar is unchanged and neither call fails.
C11_EmptyListNoOp ==
    [][(RowCount = 0 /\ (KeyDown \/ KeyUp)) =>
        /\ panic' = "none"
        /\ table_state' = None
        /\ scroll_state' = scroll_state]_vars

\* C12: 'x' or 's' with an empty row list is a no-op that does not fail:
\* no lifecycle call is made and the row list is not indexed.
C12_NoSelectionNoOp ==
    [][(RowCount = 0 /\ (KeyX \/ KeyS)) =>
        /\ panic' = "none"
        /\ issued' = <<>>]_vars

\* C13: in every state the program reaches (after construction, every tick
\* and every Down or Up) the scrollbar position is the selected index times
\* ITEM_HEIGHT, in usize arithmetic.
C13_ScrollFollowsSelection ==
    panic = "none" =>
        /\ table_state # None
        /\ scroll_state.position = (table_state[1] * ITEM_HEIGHT) % UsizeMod

C13_Witness ==
    /\ panic = "none"
    /\ RowCount = 2
    /\ table_data[1].cpu_usage # ToString(0)
    /\ table_state = Some(1)
    /\ scroll_state.position = ITEM_HEIGHT

\* C14: a failed fetch skips the tick: rows, stored snapshots and selection
\* stay as they are and the process does not abort.
C14_FetchFailureSkipsTick ==
    [][TickFetchFails =>
        /\ panic' = "none"
        /\ UNCHANGED <<table_data, metrics, table_state>>]_vars

\* C15: a lifecycle call that the hypervisor rejects never aborts the
\* process.
C15_RejectionDoesNotCrash ==
    panic # "lifecycle"

\* C16: with a row selected, 'x' makes exactly one lifecycle call, start for
\* a row labelled "off" and stop for a row labelled "on", and 's' makes
\* exactly one snapshot call, each against the selected row's name.
C16_CommandForSelectedRow ==
    [][SelectionValid =>
        LET row == table_data[table_state[1] + 1]
        IN  /\ KeyX => issued' = <<[cmd |-> IF row.status = "off" THEN "start"
                                            ELSE "stop",
                                    name |-> row.name]>>
            /\ KeyS => issued' = <<[cmd |-> "snapshot", name |-> row.name]>>]_vars

C16_Witness ==
    /\ panic = "none"
    /\ RowCount = 2
    /\ table_state = Some(1)
    /\ table_data[2].status = "on"
    /\ issued = <<[cmd |-> "stop", name |-> table_data[2].name]>>

\* C17: when the handler returns from Esc, 'q' or Ctrl-C the running flag
\* is false; a 'c' without the Control modifier leaves it true.
C17_QuitKeys ==
    [][/\ (/\ \E key \in {"Esc", "q", "Ctrl-c", "Ctrl-C"} : handle_key_events(key)
           /\ panic' = "none") => running' = FALSE
       /\ (\E key \in {"c", "C"} : handle_key_events(key)) =>
            (running' = TRUE /\ panic' = "none")]_vars

C17_Witness ==
    /\ panic = "none"
    /\ running = FALSE

\* C18: 'x' and 's' leave the rows, the selection and the scrollbar as they
\* are, and the rows change only in a tick.
C18_LifecycleKeepsRows ==
    [][/\ (KeyX \/ KeyS) => UNCHANGED <<table_data, table_state, scroll_state>>
       /\ table_data' # table_data =>
            (now' \in now..MaxClock /\ TickApply(fetched'))]_vars

C18_Witness ==
    /\ panic = "none"
    /\ issued # <<>>
    /\ issued[1].cmd = "start"
    /\ SelectionValid
    /\ table_data[table_state[1] + 1].name = issued[1].name
    /\ table_data[table_state[1] + 1].status = "off"

\* C19: the stored snapshot render_overview reads at the selected index is
\* the snapshot of the VM named in the selected row, taken by the latest
\* fetch.
C19_OverviewReadsLatestSnapshot ==
    (panic = "none" /\ SelectionValid /\ SelectedIn(metrics) = "none") =>
        LET index == table_state[1] + 1
        IN  /\ metrics[index].name = table_data[index].name
            /\ metrics[index] = fetched[index]

\* C20: after every tick that leaves rows the scrollbar's range is
\* (row count - 1) * ITEM_HEIGHT for the new row count.
C20_RangeFollowsRowCount ==
    [][(TickCompleted /\ Len(table_data') > 0) =>
        scroll_state'.content_length = (Len(table_data') - 1) * ITEM_HEIGHT]_vars

---------------------------------------------------------------------------
(* C21 *)

\* C21: row_count - 1 is never evaluated on an empty row list. The code
\* evaluates it unconditionally at construction (on the startup batch, kept
\* in `fetched`), in App::next whenever a row is selected and in App::prev
\* when the selected index is 0, so each of these must find a row.
C21_NoSubtractionOnEmptyList ==
    /\ Len(fetched) >= 1
    /\ [][((KeyDown /\ table_state # None) \/ (KeyUp /\ table_state = Some(0)))
            => RowCount >= 1]_vars

===========================================================================
